---- MODULE Spec2Model ----
\* A model of bc_coupon_importer.py: the CSV loader (read_coupon_codes), the
\* promotion check (validate_promotion), the upload loop
\* (BigCommerceAPI.create_coupon_codes) and the orchestration in main.
\*
\* Python strings that the program trims, parses or lower-cases are modelled
\* as tuples of one-character strings, so that strip(), int() and lower() are
\* computed character by character.  Column names, messages and exception
\* class names are plain strings.
EXTENDS Integers, Sequences, FiniteSets, TLC

VARIABLES pc, args, fs, lookup, valid, codes, answer, idx, success, errors,
          requests, responses, events, exitCode, out

vars == <<pc, args, fs, lookup, valid, codes, answer, idx, success, errors,
          requests, responses, events, exitCode, out>>

\* ------------------------------------------------------------------ bounds

\* Longest list of data rows of a CSV file given to read_coupon_codes.
MaxRows == 3
\* Longest list of records given to create_coupon_codes.
MaxCodes == 3
\* Longest list of data rows of the CSV file of a run of main.
MaxMainRows == 2

\* ----------------------------------------------------------------- helpers

Range(s) == {s[i] : i \in DOMAIN s}

SeqsUpTo(S, n) == UNION {[1..k -> S] : k \in 0..n}

IndexOf(s, x) == CHOOSE i \in DOMAIN s : s[i] = x

\* Python's None where a string is expected (a tuple no string equals).
None == <<"None">>

\* ----------------------------------------------------- str.strip and int()

WhiteSpace == {" ", "\t"}

RECURSIVE LStrip(_)
LStrip(s) ==
    IF s = <<>> THEN s
    ELSE IF Head(s) \in WhiteSpace THEN LStrip(Tail(s)) ELSE s

RECURSIVE RStrip(_)
RStrip(s) ==
    IF s = <<>> THEN s
    ELSE IF s[Len(s)] \in WhiteSpace THEN RStrip(SubSeq(s, 1, Len(s) - 1)) ELSE s

\* str.strip(): leading and trailing whitespace removed.
Strip(s) == RStrip(LStrip(s))

Digits == {"0", "1", "2", "3", "4", "5", "6", "7", "8", "9"}

DigitVal(c) ==
    CASE c = "0" -> 0 [] c = "1" -> 1 [] c = "2" -> 2 [] c = "3" -> 3
      [] c = "4" -> 4 [] c = "5" -> 5 [] c = "6" -> 6 [] c = "7" -> 7
      [] c = "8" -> 8 [] c = "9" -> 9

RECURSIVE DigitsValue(_, _)
DigitsValue(s, acc) ==
    IF s = <<>> THEN acc ELSE DigitsValue(Tail(s), 10 * acc + DigitVal(Head(s)))

\* The sign a numeral starts with, "" when it has none.
SignOf(t) == IF t # <<>> /\ Head(t) \in {"+", "-"} THEN Head(t) ELSE ""

IntOf(sign, ds) ==
    IF ds # <<>> /\ \A i \in DOMAIN ds : ds[i] \in Digits
    THEN [ok |-> TRUE,
          val |-> IF sign = "-" THEN 0 - DigitsValue(ds, 0) ELSE DigitsValue(ds, 0)]
    ELSE [ok |-> FALSE, val |-> 0]

PyIntStripped(t) == IntOf(SignOf(t), IF SignOf(t) = "" THEN t ELSE Tail(t))

\* int(s) of a string: surrounding whitespace is ignored, then an optional
\* sign and at least one decimal digit; anything else is a ValueError
\* (ok = FALSE).
PyInt(s) == PyIntStripped(Strip(s))

\* codes[:limit]
PySlice(s, limit) ==
    IF limit >= 0
    THEN SubSeq(s, 1, IF limit < Len(s) THEN limit ELSE Len(s))
    ELSE SubSeq(s, 1, IF Len(s) + limit > 0 THEN Len(s) + limit ELSE 0)

\* ------------------------------------------------------------ csv.DictReader

\* The row DictReader yields for the fields `raw` of one line: a field the
\* line does not have is None (restval); fields beyond the header go under
\* the key None (restkey) and are kept apart in HasRest.
DictRow(fieldnames, raw) ==
    [k \in Range(fieldnames) |->
        IF IndexOf(fieldnames, k) <= Len(raw) THEN raw[IndexOf(fieldnames, k)]
        ELSE None]

HasRest(fieldnames, raw) == Len(raw) > Len(fieldnames)

\* any(row.values()): some value is neither None nor empty; the restkey
\* list, when present, is a non-empty list.
AnyValues(fieldnames, raw) ==
    \/ HasRest(fieldnames, raw)
    \/ \E k \in Range(fieldnames) :
          LET v == DictRow(fieldnames, raw)[k] IN v # None /\ v # <<>>

\* ---------------------------------------------------------- read_coupon_codes

required_columns == {"Code", "MaxUses", "MaxUsesPerCustomer"}

\* What a numeric column gives: "ok" with its value, "continue" for a row
\* to skip, or the exception raised.
Parsed(kind, val) == [kind |-> kind, val |-> val]

\* Lines 122-125 (128-131): int() of the text, then the test for a negative
\* value.
CheckInt(p) ==
    IF ~p.ok THEN Parsed("ValueError", 0)
    ELSE IF p.val < 0 THEN Parsed("continue", 0)
    ELSE Parsed("ok", p.val)

\* Line 121 (127): a blank column keeps the default 0.
ParseStripped(t) == IF t = <<>> THEN Parsed("ok", 0) ELSE CheckInt(PyInt(t))

\* One numeric column of a row (lines 121-125, 127-131); .strip() of None
\* is an AttributeError.
ParseField(v) ==
    IF v = None THEN Parsed("AttributeError", 0) ELSE ParseStripped(Strip(v))

NoRecord == [code |-> <<>>, max_uses |-> 0, max_uses_per_customer |-> 0]

\* What one row gives: kept with its record, skipped, or an exception that
\* leaves the loop.
SkipRow == [exc |-> "none", keep |-> FALSE, rec |-> NoRecord]
RaiseRow(e) == [exc |-> e, keep |-> FALSE, rec |-> NoRecord]
KeepRow(rec) == [exc |-> "none", keep |-> TRUE, rec |-> rec]

\* A record whose two limits both come from MaxUses.
MakeRecordSameLimit(code, max_uses, max_uses_per_customer) ==
    [code |-> code, max_uses |-> max_uses, max_uses_per_customer |-> max_uses]

\* The record built at lines 133-137.
MakeRecord(code, max_uses, max_uses_per_customer) ==
    [code |-> code, max_uses |-> max_uses,
     max_uses_per_customer |-> max_uses_per_customer]

\* Lines 127-137, mc being what MaxUsesPerCustomer gave.  The inner try
\* catches ValueError only (lines 139-141).
ProcessPerCustomer(code, max_uses, mc) ==
    IF mc.kind = "ValueError" \/ mc.kind = "continue" THEN SkipRow
    ELSE IF mc.kind # "ok" THEN RaiseRow(mc.kind)
    ELSE KeepRow(MakeRecord(code, max_uses, mc.val))

\* Lines 121-125, mu being what MaxUses gave.
ProcessMaxUses(row, code, mu) ==
    IF mu.kind = "ValueError" \/ mu.kind = "continue" THEN SkipRow
    ELSE IF mu.kind # "ok" THEN RaiseRow(mu.kind)
    ELSE ProcessPerCustomer(code, mu.val, ParseField(row["MaxUsesPerCustomer"]))

\* Lines 113-115, code being row['Code'].strip().
ProcessCode(row, code) ==
    IF code = <<>> THEN SkipRow
    ELSE ProcessMaxUses(row, code, ParseField(row["MaxUses"]))

\* Line 112, outside the inner try.
ProcessDict(row) ==
    IF row["Code"] = None THEN RaiseRow("AttributeError")
    ELSE ProcessCode(row, Strip(row["Code"]))

\* The body of the loop over the rows (lines 105-141).
ProcessRow(fieldnames, raw) ==
    IF ~AnyValues(fieldnames, raw) THEN SkipRow
    ELSE ProcessDict(DictRow(fieldnames, raw))

\* The loop over the rows of the reader (line 105); csv.DictReader passes
\* over lines with no field at all.  An exception ends the loop.
RECURSIVE ReadRows(_, _, _)
RECURSIVE AfterRow(_, _, _, _)
AfterRow(fieldnames, rest, acc, r) ==
    IF r.exc # "none" THEN [exc |-> r.exc, codes |-> acc]
    ELSE ReadRows(fieldnames, rest, IF r.keep THEN Append(acc, r.rec) ELSE acc)

ReadRows(fieldnames, rows, acc) ==
    IF rows = <<>> THEN [exc |-> "none", codes |-> acc]
    ELSE IF Head(rows) = <<>> THEN ReadRows(fieldnames, Tail(rows), acc)
    ELSE AfterRow(fieldnames, Tail(rows), acc, ProcessRow(fieldnames, Head(rows)))

ExitRead(m) == [exit |-> TRUE, codes |-> <<>>, msg |-> m]
ReturnRead(recs) == [exit |-> FALSE, codes |-> recs, msg |-> ""]

\* The end of read_coupon_codes without the check of lines 143-145.
AfterLoopNoEmptyCheck(r, limit) ==
    IF r.exc # "none" THEN ExitRead("Error reading file")
    ELSE IF Len(r.codes) > limit THEN ReturnRead(PySlice(r.codes, limit))
    ELSE ReturnRead(r.codes)

\* read_coupon_codes after the loop (lines 143-161): the handler of an
\* exception of the loop, the check for no record, the truncation.
AfterLoop(r, limit) ==
    IF r.exc # "none" THEN ExitRead("Error reading file")
    ELSE IF r.codes = <<>> THEN ExitRead("No valid coupon codes found in CSV file.")
    ELSE IF Len(r.codes) > limit THEN ReturnRead(PySlice(r.codes, limit))
    ELSE ReturnRead(r.codes)

\* read_coupon_codes(file_path, limit): the records returned, or sys.exit(1)
\* with the message printed.
ReadCouponCodes(file, limit) ==
    IF ~file.exists THEN ExitRead("Error: File not found.")
    ELSE IF file.empty THEN ExitRead("Error: CSV file is empty.")
    ELSE IF ~(required_columns \subseteq Range(file.fieldnames))
    THEN ExitRead("Error: CSV file must contain columns")
    ELSE AfterLoop(ReadRows(file.fieldnames, file.rows, <<>>), limit)

\* ------------------------------------------------------------- API client

\* raise_for_status(): an HTTPError for a 4xx or 5xx status.
RaiseForStatus(status) == status >= 400 /\ status < 600

\* What a request raises: requests.get/post fails (ConnectionError),
\* raise_for_status raises HTTPError, response.json() fails on a body that
\* is no JSON; "none" when the call returns.
RequestExc(resp) ==
    IF resp.net # "ok" THEN "ConnectionError"
    ELSE IF RaiseForStatus(resp.status) THEN "HTTPError"
    ELSE IF ~resp.json THEN "JSONDecodeError"
    ELSE "none"

\* The body create_coupon_code posts (lines 72-76).
CouponData(code_data) ==
    [code |-> code_data.code, max_uses |-> code_data.max_uses,
     max_uses_per_customer |-> code_data.max_uses_per_customer]

\* The try statement of create_coupon_codes without its second handler.
CreateHandlerHTTPOnly(exc) ==
    IF exc = "none" THEN "else"
    ELSE IF exc = "HTTPError" THEN "except HTTPError"
    ELSE "propagate"

\* The clause of the try statement of create_coupon_codes (lines 51-63) that
\* runs for what create_coupon_code raised.  Every exception class modelled
\* is a subclass of Exception.
CreateHandler(exc) ==
    IF exc = "none" THEN "else"
    ELSE IF exc = "HTTPError" THEN "except HTTPError"
    ELSE "except Exception"

ErrorEntry(message, row) == [message |-> message, code |-> row.code]

\* The error list with 422 reported like every other failure.
NewErrorsOneMessage(errs, row, resp) ==
    LET h == CreateHandler(RequestExc(resp))
    IN  IF h = "except HTTPError" /\ resp.status \in {422, 400, 401}
        THEN Append(errs, ErrorEntry("Error importing code.", row))
        ELSE IF h = "except Exception"
        THEN Append(errs, ErrorEntry("Error importing code.", row))
        ELSE errs

\* The error list after one iteration (lines 53-61).
NewErrors(errs, row, resp) ==
    LET h == CreateHandler(RequestExc(resp))
    IN  IF h = "except HTTPError"
        THEN IF resp.status = 422
             THEN Append(errs, ErrorEntry("Duplicate code.", row))
             ELSE IF resp.status = 400
             THEN Append(errs, ErrorEntry("Error importing code.", row))
             ELSE IF resp.status = 401
             THEN Append(errs, ErrorEntry("Error importing code.", row))
             ELSE errs
        ELSE IF h = "except Exception"
        THEN Append(errs, ErrorEntry("Error importing code.", row))
        ELSE errs

\* The success list after one iteration (lines 62-63).
NewSuccess(succ, row, resp) ==
    IF CreateHandler(RequestExc(resp)) = "else"
    THEN Append(succ, [code |-> row.code]) ELSE succ

\* dict.get(key): None when the key is absent.
Get(d, k) == IF k \in DOMAIN d THEN d[k] ELSE "None"

EmptyDict == [k \in {} |-> ""]

\* validate_promotion without the redemption_type check of lines 173-175.
ValidatePromotionNoTypeCheck(resp) ==
    LET exc == RequestExc(resp)
        promotion == resp.data
    IN  IF exc = "none"
        THEN IF promotion = EmptyDict
             THEN [ret |-> FALSE, raised |-> FALSE, msg |-> "Error: Promotion not found."]
             ELSE [ret |-> TRUE, raised |-> FALSE, msg |-> "Found promotion"]
        ELSE IF exc = "HTTPError"
        THEN [ret |-> FALSE, raised |-> FALSE,
              msg |-> IF resp.status = 404 THEN "Error: Promotion not found."
                      ELSE "Error validating promotion"]
        ELSE [ret |-> FALSE, raised |-> FALSE, msg |-> "Error validating promotion"]

\* validate_promotion(api, promotion_id) for the response the lookup
\* (get_promotion_by_id, lines 39-44) gets: the value returned and the
\* message printed.
ValidatePromotion(resp) ==
    LET exc == RequestExc(resp)
        promotion == resp.data
    IN  IF exc = "none"
        THEN IF promotion = EmptyDict
             THEN [ret |-> FALSE, raised |-> FALSE, msg |-> "Error: Promotion not found."]
             ELSE IF Get(promotion, "redemption_type") # "COUPON"
             THEN [ret |-> FALSE, raised |-> FALSE,
                   msg |-> "Error: Promotion does not support coupon codes."]
             ELSE [ret |-> TRUE, raised |-> FALSE, msg |-> "Found promotion"]
        ELSE IF exc = "HTTPError"
        THEN [ret |-> FALSE, raised |-> FALSE,
              msg |-> IF resp.status = 404 THEN "Error: Promotion not found."
                      ELSE "Error validating promotion"]
        ELSE [ret |-> FALSE, raised |-> FALSE, msg |-> "Error validating promotion"]

\* list_promotions(api): the line printed; every exception is caught.
ListPromotions(resp) ==
    IF RequestExc(resp) # "none" THEN "Error listing promotions"
    ELSE IF resp.data = <<>> THEN "No promotions found in your store."
    ELSE "Available Promotions:"

\* -------------------------------------------------------------------- main

\* str.lower() of one character.
LowerChar(c) ==
    CASE c = "Y" -> "y" [] c = "N" -> "n" [] c = "E" -> "e" [] c = "S" -> "s"
      [] OTHER -> c

Lower(s) == [i \in DOMAIN s |-> LowerChar(s[i])]

\* An answer is taken as yes when it starts with y.
ConfirmedByPrefix(response) ==
    response # <<>> /\ LowerChar(response[1]) = "y"

\* The test of line 306: response.lower() == 'y'.
Confirmed(response) == Lower(response) = <<"y">>

\* not x, for an optional argument: None is <<>>, a value v is <<v>>.
Falsy(opt, zero) == opt = <<>> \/ opt[1] = zero

\* The steps of main with the CSV file read before the promotion lookup.
MainStepsLoadFirst ==
    <<"check_args", "check_file", "read", "check_codes", "validate",
      "confirm", "upload", "report", "exit">>

\* The steps of main in upload mode, in the order of lines 279-332.
MainSteps ==
    <<"check_args", "check_file", "validate", "read", "check_codes",
      "confirm", "upload", "report", "exit">>

StepAfter(p) == MainSteps[IndexOf(MainSteps, p) + 1]

\* ------------------------------------------------------------------ inputs

\* --max-codes: default 100 (line 265).
DefaultMaxCodes == 100

\* Values of --max-codes (any int: argparse accepts a negative one).
Limits == {-1, 0, 1, 2, DefaultMaxCodes}

Header == <<"Code", "MaxUses", "MaxUsesPerCustomer">>
HeaderReordered == <<"MaxUses", "Code", "MaxUsesPerCustomer", "Note">>
HeaderShort == <<"Code", "MaxUses">>

\* Lines of a CSV file, each the sequence of its fields.
RowPlain == << <<"1">>, <<"2">>, <<"0">> >>
RowPadded == << <<" ", "B", " ">>, <<>>, <<"\t", "2", " ">> >>
RowNoCode == << <<>>, <<"2">>, <<"2">> >>
RowAllEmpty == << <<>>, <<>>, <<>> >>
RowNotNumber == << <<"C">>, <<"x">>, <<"1">> >>
RowNegative == << <<"C">>, <<"1">>, <<"-", "1">> >>
RowOneField == << <<"D">> >>
RowBlankLine == <<>>
RowSpaceCode == << <<" ">>, <<"1">>, <<"1">> >>
RowExtraField == << <<"A">>, <<"+", "1">>, <<"1", "0">>, <<"z">> >>

RowSet ==
    {RowPlain, RowPadded, RowNoCode, RowAllEmpty, RowNotNumber, RowNegative,
     RowOneField, RowBlankLine, RowSpaceCode, RowExtraField}

MainRowSet == {RowPlain, RowPadded, RowOneField}

File(fieldnames, rows) ==
    [exists |-> TRUE, empty |-> FALSE, fieldnames |-> fieldnames, rows |-> rows]

NoFile == [exists |-> FALSE, empty |-> FALSE, fieldnames |-> <<>>, rows |-> <<>>]
EmptyFile == [exists |-> TRUE, empty |-> TRUE, fieldnames |-> <<>>, rows |-> <<>>]

FilesOf(headers, rowset, n) ==
    {NoFile, EmptyFile, File(<<>>, <<>>)}
      \cup {File(HeaderShort, rows) : rows \in SeqsUpTo(rowset, 1)}
      \cup {File(h, rows) : h \in headers, rows \in SeqsUpTo(rowset, n)}

Response(status, json, data) ==
    [net |-> "ok", status |-> status, json |-> json, data |-> data]

NetworkFailure == [net |-> "fail", status |-> 0, json |-> FALSE, data |-> <<>>]
NoResponse == [net |-> "none", status |-> 0, json |-> FALSE, data |-> <<>>]

\* Responses to POST /promotions/{id}/codes.
PostResponses ==
    {Response(201, TRUE, <<>>), Response(200, FALSE, <<>>),
     Response(422, TRUE, <<>>), Response(400, TRUE, <<>>),
     Response(401, TRUE, <<>>), Response(403, TRUE, <<>>),
     Response(500, TRUE, <<>>), NetworkFailure}

PromotionCoupon == ("name" :> "Sale" @@ "redemption_type" :> "COUPON")
PromotionAutomatic == ("name" :> "Auto" @@ "redemption_type" :> "AUTOMATIC")
PromotionNoType == ("name" :> "Bare")

\* Responses to GET /promotions/{id}; data is the "data" member of the body.
GetResponses ==
    {Response(200, TRUE, PromotionCoupon), Response(200, TRUE, PromotionAutomatic),
     Response(200, TRUE, PromotionNoType), Response(200, TRUE, EmptyDict),
     Response(200, FALSE, EmptyDict), Response(404, TRUE, EmptyDict),
     Response(500, TRUE, PromotionCoupon), NetworkFailure}

\* Responses to GET /promotions?limit=250.
ListResponses ==
    {Response(200, TRUE, <<PromotionCoupon>>), Response(200, TRUE, <<>>),
     Response(401, TRUE, <<>>), NetworkFailure}

\* What the operator types at the prompt.
Answers ==
    {<<"y">>, <<"Y">>, <<"n">>, <<>>, <<"y", "e", "s">>, <<"Y", " ">>, <<" ", "y">>}

NotAsked == None

Records ==
    {MakeRecord(<<"A">>, 1, 1), MakeRecord(<<"B">>, 0, 2), MakeRecord(<<"C">>, 0, 0)}

Args ==
    [list_promotions : BOOLEAN, promotion_id : {<<>>, <<0>>, <<7>>},
     file : {<<>>, <<"">>, <<"codes.csv">>}, max_codes : Limits]

UploadArgs(limit) ==
    [list_promotions |-> FALSE, promotion_id |-> <<7>>, file |-> <<"codes.csv">>,
     max_codes |-> limit]

\* ------------------------------------------------------------------- state

\* The state before anything ran, but for pc, args, fs and codes.
Fresh ==
    /\ lookup = NoResponse
    /\ valid = [ret |-> FALSE, raised |-> FALSE, msg |-> ""]
    /\ answer = NotAsked
    /\ idx = 1
    /\ success = <<>>
    /\ errors = <<>>
    /\ requests = <<>>
    /\ responses = <<>>
    /\ events = <<>>
    /\ exitCode = 0
    /\ out = ""

\* A run of main.
Init ==
    /\ pc = MainSteps[1]
    /\ args \in Args
    /\ fs \in FilesOf({Header}, MainRowSet, MaxMainRows)
    /\ codes = <<>>
    /\ Fresh

\* A call of read_coupon_codes(file_path, limit).
InitRead ==
    /\ pc = "read"
    /\ fs \in FilesOf({Header, HeaderReordered}, RowSet, MaxRows)
    /\ \E limit \in Limits : args = UploadArgs(limit)
    /\ codes = <<>>
    /\ Fresh

\* A call of create_coupon_codes(promotion_id, codes).
InitCreate ==
    /\ pc = "upload"
    /\ fs = NoFile
    /\ args = UploadArgs(DefaultMaxCodes)
    /\ codes \in SeqsUpTo(Records, MaxCodes)
    /\ Fresh

Exit(code, message) ==
    /\ pc' = "exit"
    /\ exitCode' = code
    /\ out' = message

\* ----------------------------------------------------------------- actions

\* main, lines 275-277: --list-promotions.
MainListPromotions ==
    /\ pc = "check_args"
    /\ args.list_promotions
    /\ \E resp \in ListResponses :
          /\ Exit(0, ListPromotions(resp))
          /\ events' = Append(events, "list")
    /\ UNCHANGED <<args, fs, lookup, valid, codes, answer, idx, success, errors,
                   requests, responses>>

\* main, lines 280-283.
MainCheckArgs ==
    /\ pc = "check_args"
    /\ ~args.list_promotions
    /\ IF Falsy(args.promotion_id, 0) \/ Falsy(args.file, "")
       THEN Exit(1, "Error: --promotion-id and --file are required for uploading codes.")
       ELSE pc' = StepAfter("check_args") /\ UNCHANGED <<exitCode, out>>
    /\ UNCHANGED <<args, fs, lookup, valid, codes, answer, idx, success, errors,
                   requests, responses, events>>

\* main, lines 286-288.
MainCheckFile ==
    /\ pc = "check_file"
    /\ IF ~fs.exists
       THEN Exit(1, "Error: File not found.")
       ELSE pc' = StepAfter("check_file") /\ UNCHANGED <<exitCode, out>>
    /\ UNCHANGED <<args, fs, lookup, valid, codes, answer, idx, success, errors,
                   requests, responses, events>>

\* main, lines 291-292, v being what validate_promotion returned.
AfterValidate(v) ==
    IF v.raised THEN Exit(1, "Traceback")
    ELSE IF ~v.ret THEN Exit(1, v.msg)
    ELSE pc' = StepAfter("validate") /\ out' = v.msg /\ UNCHANGED exitCode

\* main, lines 291-292: validate_promotion with its remote lookup.
MainValidate ==
    /\ pc = "validate"
    /\ \E resp \in GetResponses :
          /\ lookup' = resp
          /\ valid' = ValidatePromotion(resp)
          /\ AfterValidate(ValidatePromotion(resp))
    /\ events' = Append(events, "lookup")
    /\ UNCHANGED <<args, fs, codes, answer, idx, success, errors, requests,
                   responses>>

\* main, line 296, r being what read_coupon_codes did.
AfterRead(r) ==
    /\ codes' = r.codes
    /\ IF r.exit THEN Exit(1, r.msg)
       ELSE pc' = StepAfter("read") /\ UNCHANGED <<exitCode, out>>

\* read_coupon_codes (lines 83-161), called at line 296.
ReadCouponCodesCall ==
    /\ pc = "read"
    /\ AfterRead(ReadCouponCodes(fs, args.max_codes))
    /\ events' = Append(events, "load")
    /\ UNCHANGED <<args, fs, lookup, valid, answer, idx, success, errors,
                   requests, responses>>

\* main, lines 298-302.
MainCheckCodes ==
    /\ pc = "check_codes"
    /\ IF codes = <<>>
       THEN Exit(1, "No valid coupon codes found in file.")
       ELSE /\ pc' = StepAfter("check_codes")
            /\ out' = "Found coupon codes to upload."
            /\ UNCHANGED exitCode
    /\ UNCHANGED <<args, fs, lookup, valid, codes, answer, idx, success, errors,
                   requests, responses, events>>

\* main, lines 305-313: the prompt, and the call of create_coupon_codes.
MainConfirm ==
    /\ pc = "confirm"
    /\ \E response \in Answers :
          /\ answer' = response
          /\ IF ~Confirmed(response)
             THEN Exit(0, "Upload cancelled.")
             ELSE /\ pc' = StepAfter("confirm")
                  /\ out' = "Uploading coupon codes..."
                  /\ UNCHANGED exitCode
    /\ idx' = 1
    /\ success' = <<>>
    /\ errors' = <<>>
    /\ UNCHANGED <<args, fs, lookup, valid, codes, requests, responses, events>>

\* One iteration of the loop of create_coupon_codes (lines 50-63): the
\* request of create_coupon_code and the clause that handles its outcome.
CreateCouponCode ==
    /\ pc = "upload"
    /\ idx <= Len(codes)
    /\ \E resp \in PostResponses :
          /\ requests' = Append(requests, CouponData(codes[idx]))
          /\ responses' = Append(responses, resp)
          /\ errors' = NewErrors(errors, codes[idx], resp)
          /\ success' = NewSuccess(success, codes[idx], resp)
          /\ IF CreateHandler(RequestExc(resp)) = "propagate"
             THEN pc' = "raised" /\ idx' = idx
             ELSE pc' = pc /\ idx' = idx + 1
    /\ events' = Append(events, "post")
    /\ UNCHANGED <<args, fs, lookup, valid, codes, answer, exitCode, out>>

\* create_coupon_codes, line 65: the loop is over.
CreateCouponCodesReturn ==
    /\ pc = "upload"
    /\ idx > Len(codes)
    /\ pc' = StepAfter("upload")
    /\ UNCHANGED <<args, fs, lookup, valid, codes, answer, idx, success, errors,
                   requests, responses, events, exitCode, out>>

\* main, lines 315-332: the report, or the handler of an exception of the
\* upload.
MainReport ==
    /\ pc \in {"report", "raised"}
    /\ IF pc = "raised" THEN Exit(1, "Error uploading codes")
       ELSE Exit(0, "Upload complete!")
    /\ UNCHANGED <<args, fs, lookup, valid, codes, answer, idx, success, errors,
                   requests, responses, events>>

Next ==
    \/ MainListPromotions
    \/ MainCheckArgs
    \/ MainCheckFile
    \/ MainValidate
    \/ ReadCouponCodesCall
    \/ MainCheckCodes
    \/ MainConfirm
    \/ CreateCouponCode
    \/ CreateCouponCodesReturn
    \/ MainReport

Spec == Init /\ [][Next]_vars

NextRead == ReadCouponCodesCall

SpecRead == InitRead /\ [][NextRead]_vars

NextCreate == CreateCouponCode \/ CreateCouponCodesReturn

SpecCreate == InitCreate /\ [][NextCreate]_vars

\* ------------------------------------------------- what the claims speak of

Least(S) == CHOOSE x \in S : \A y \in S : x <= y
Greatest(S) == CHOOSE x \in S : \A y \in S : x >= y

NonSpace(s) == {i \in DOMAIN s : s[i] \notin WhiteSpace}

\* s without the whitespace around it.
Trimmed(s) ==
    IF NonSpace(s) = {} THEN <<>>
    ELSE SubSeq(s, Least(NonSpace(s)), Greatest(NonSpace(s)))

IsNumeral(t) == t # <<>> /\ \A i \in DOMAIN t : t[i] \in Digits

RECURSIVE NumeralValue(_)
NumeralValue(t) ==
    IF t = <<>> THEN 0
    ELSE 10 * NumeralValue(SubSeq(t, 1, Len(t) - 1)) + DigitVal(t[Len(t)])

\* t is the text of an integer that is not negative.
IsNonNegative(t) ==
    \/ IsNumeral(t)
    \/ Len(t) >= 2 /\ t[1] = "+" /\ IsNumeral(Tail(t))
    \/ Len(t) >= 2 /\ t[1] = "-" /\ IsNumeral(Tail(t)) /\ NumeralValue(Tail(t)) = 0

\* The limit a numeric column states: 0 when blank.
LimitOf(v) ==
    IF Trimmed(v) = <<>> THEN 0
    ELSE IF Trimmed(v)[1] \in {"+", "-"} THEN NumeralValue(Tail(Trimmed(v)))
    ELSE NumeralValue(Trimmed(v))

NumericColumns == {"MaxUses", "MaxUsesPerCustomer"}

\* A data row with a Code and two numeric columns that are blank or an
\* integer >= 0.
WellFormedRow(fieldnames, raw) ==
    /\ raw # <<>>
    /\ DictRow(fieldnames, raw)["Code"] # None
    /\ Trimmed(DictRow(fieldnames, raw)["Code"]) # <<>>
    /\ \A f \in NumericColumns :
          /\ DictRow(fieldnames, raw)[f] # None
          /\ \/ Trimmed(DictRow(fieldnames, raw)[f]) = <<>>
             \/ IsNonNegative(Trimmed(DictRow(fieldnames, raw)[f]))

\* No required column is absent from a line that has fields.
NoAbsentField(fieldnames, raw) ==
    raw = <<>> \/ \A f \in required_columns : DictRow(fieldnames, raw)[f] # None

ExpectedRecord(fieldnames, raw) ==
    [code |-> Trimmed(DictRow(fieldnames, raw)["Code"]),
     max_uses |-> LimitOf(DictRow(fieldnames, raw)["MaxUses"]),
     max_uses_per_customer |-> LimitOf(DictRow(fieldnames, raw)["MaxUsesPerCustomer"])]

RECURSIVE ExpectedRecords(_, _)
ExpectedRecords(fieldnames, rows) ==
    IF rows = <<>> THEN <<>>
    ELSE (IF WellFormedRow(fieldnames, Head(rows))
          THEN <<ExpectedRecord(fieldnames, Head(rows))>> ELSE <<>>)
         \o ExpectedRecords(fieldnames, Tail(rows))

HeaderOk ==
    fs.exists /\ ~fs.empty /\ required_columns \subseteq Range(fs.fieldnames)

ReadCalled == "load" \in Range(events)
ReadReturned == ReadCalled /\ pc # "exit"

ValidRecords == ExpectedRecords(fs.fieldnames, fs.rows)

\* C4: in read_coupon_codes a bad data row never aborts the load: whatever
\* the other rows hold (also a row with fewer fields than the header), the
\* valid rows of the file are returned, unchanged and in file order.
C4_BadRowNeverAborts ==
    (ReadCalled /\ HeaderOk /\ ValidRecords # <<>>
       /\ args.max_codes >= Len(ValidRecords))
    => (ReadReturned /\ codes = ValidRecords)

\* C5: for a CSV with the required header, N >= 1 data rows, all
\* well-formed, and a limit >= N, read_coupon_codes returns N records in file
\* order, record i holding the trimmed Code of row i and the integer of each
\* numeric column, 0 for a blank one.
C5_WellFormedRowsReturned ==
    (ReadCalled /\ HeaderOk /\ fs.rows # <<>>
       /\ (\A i \in DOMAIN fs.rows : WellFormedRow(fs.fieldnames, fs.rows[i]))
       /\ args.max_codes >= Len(fs.rows))
    => /\ ReadReturned
       /\ Len(codes) = Len(fs.rows)
       /\ \A i \in DOMAIN fs.rows : codes[i] = ExpectedRecord(fs.fieldnames, fs.rows[i])

C5_Witness ==
    /\ pc = "check_codes"
    /\ fs = File(Header, <<RowPadded, RowExtraField>>)
    /\ args.max_codes = 2
    /\ codes = <<MakeRecord(<<"B">>, 0, 2), MakeRecord(<<"A">>, 1, 10)>>

\* C6: for a CSV with N valid rows and any limit L < N, read_coupon_codes
\* returns the first L valid records in file order, so that the length of
\* what it returns never exceeds the limit.
C6_TruncatedToLimit ==
    (ReadCalled /\ HeaderOk
       /\ (\A i \in DOMAIN fs.rows : NoAbsentField(fs.fieldnames, fs.rows[i]))
       /\ ValidRecords # <<>>
       /\ args.max_codes < Len(ValidRecords))
    => /\ ReadReturned
       /\ Len(codes) <= args.max_codes
       /\ codes = SubSeq(ValidRecords, 1, args.max_codes)

\* C7: read_coupon_codes ends the run with exit code 1 and returns no record
\* whenever the CSV has the required header and no data row, or no data row
\* that is kept.
C7_NoValidRowFails ==
    (ReadCalled /\ HeaderOk
       /\ \A i \in DOMAIN fs.rows : ~WellFormedRow(fs.fieldnames, fs.rows[i]))
    => (pc = "exit" /\ exitCode = 1 /\ codes = <<>>)

C7_Witness ==
    /\ ReadCalled
    /\ HeaderOk
    /\ Len(fs.rows) >= 2
    /\ \A i \in DOMAIN fs.rows :
          /\ fs.rows[i] # <<>>
          /\ NoAbsentField(fs.fieldnames, fs.rows[i])
          /\ ~WellFormedRow(fs.fieldnames, fs.rows[i])
    /\ pc = "exit"
    /\ exitCode = 1
    /\ out = "No valid coupon codes found in CSV file."

\* A creation request that failed: no response, a status that is not 2xx,
\* or a body create_coupon_code cannot decode.
Failed(resp) ==
    resp.net # "ok" \/ resp.status < 200 \/ resp.status > 299 \/ ~resp.json

Is422(resp) == resp.net = "ok" /\ resp.status = 422

MessageFor(resp) == IF Is422(resp) THEN "Duplicate code." ELSE "Error importing code."

\* The error entries the responses rs to the records cs call for.
RECURSIVE ExpectedErrors(_, _)
ExpectedErrors(cs, rs) ==
    IF rs = <<>> THEN <<>>
    ELSE (IF Failed(Head(rs))
          THEN <<[message |-> MessageFor(Head(rs)), code |-> Head(cs).code]>>
          ELSE <<>>)
         \o ExpectedErrors(Tail(cs), Tail(rs))

RECURSIVE ExpectedSuccess(_, _)
ExpectedSuccess(cs, rs) ==
    IF rs = <<>> THEN <<>>
    ELSE (IF Failed(Head(rs)) THEN <<>> ELSE <<[code |-> Head(cs).code]>>)
         \o ExpectedSuccess(Tail(cs), Tail(rs))

\* C1: in create_coupon_codes every record whose request failed is in the
\* error list, with "Duplicate code." for HTTP 422 and "Error importing
\* code." for every other failure; the success list holds the records whose
\* request raised nothing.
C1_EveryFailureRecorded ==
    /\ errors = ExpectedErrors(codes, responses)
    /\ success = ExpectedSuccess(codes, responses)

\* C2: create_coupon_codes issues exactly one creation request per record,
\* in input order, whatever the outcome of each: request i carries record i,
\* and when the call is over every record has been requested once.
C2_OneRequestPerRecord ==
    /\ Len(requests) <= Len(codes)
    /\ Len(responses) = Len(requests)
    /\ \A i \in DOMAIN requests :
          requests[i] = [code |-> codes[i].code, max_uses |-> codes[i].max_uses,
                         max_uses_per_customer |-> codes[i].max_uses_per_customer]
    /\ (pc = "upload" => Len(requests) = idx - 1)
    /\ (pc # "upload" => Len(requests) = Len(codes))

C2_Witness ==
    /\ pc = "report"
    /\ Len(codes) = 3
    /\ codes[1] = codes[2]
    /\ responses[1] = NetworkFailure
    /\ responses[2].status = 500
    /\ responses[3].status = 201
    /\ Len(requests) = 3

\* C3: when every creation request either succeeds or returns HTTP 422, the
\* success list is the codes whose request succeeded and the error list the
\* codes whose request returned 422, each tagged "Duplicate code.", both in
\* the input order of the records.
C3_SuccessAndDuplicates ==
    (\A i \in DOMAIN responses : ~Failed(responses[i]) \/ Is422(responses[i]))
    => /\ success = ExpectedSuccess(codes, responses)
       /\ errors = ExpectedErrors(codes, responses)
       /\ \A i \in DOMAIN errors : errors[i].message = "Duplicate code."
       /\ (pc = "report" => Len(success) + Len(errors) = Len(codes))

C3_Witness ==
    /\ pc = "report"
    /\ Len(codes) = 3
    /\ responses[1].status = 201
    /\ Is422(responses[2])
    /\ responses[3].status = 201
    /\ success = <<[code |-> codes[1].code], [code |-> codes[3].code]>>
    /\ errors = <<[message |-> "Duplicate code.", code |-> codes[2].code]>>

\* The lookup found a promotion that takes coupon codes.
GoodLookup(resp) ==
    /\ resp.net = "ok"
    /\ resp.status >= 200 /\ resp.status <= 299
    /\ resp.json
    /\ resp.data # EmptyDict
    /\ "redemption_type" \in DOMAIN resp.data
    /\ resp.data["redemption_type"] = "COUPON"

Validated == lookup # NoResponse

\* C8: validate_promotion returns true exactly when the lookup succeeds with
\* a non-empty promotion whose redemption_type is "COUPON"; otherwise it
\* returns false, and it never raises.
C8_ValidateIffCoupon ==
    Validated => (~valid.raised /\ (valid.ret <=> GoodLookup(lookup)))

C8_Witness ==
    /\ lookup = Response(200, TRUE, PromotionCoupon)
    /\ valid.ret
    /\ pc = "read"

UploadMode ==
    /\ ~args.list_promotions
    /\ ~Falsy(args.promotion_id, 0)
    /\ ~Falsy(args.file, "")

FileFailure ==
    ~fs.exists \/ fs.empty \/ ~(required_columns \subseteq Range(fs.fieldnames))

Yes == {<<"y">>, <<"Y">>}

\* C9: in every run of main a creation request is issued only after the
\* promotion validation returned true, the loader returned at least one
\* record and the operator answered "y" or "Y"; a file, schema or promotion
\* failure ends the run with exit code 1 and no creation request, any other
\* answer with exit code 0 and no creation request.
C9_UploadOnlyWhenConfirmed ==
    /\ requests # <<>> =>
          /\ Validated /\ valid.ret
          /\ ReadCalled /\ Len(codes) >= 1
          /\ answer \in Yes
    /\ (pc = "exit" /\ UploadMode /\ (FileFailure \/ (Validated /\ ~GoodLookup(lookup))))
          => (exitCode = 1 /\ requests = <<>>)
    /\ (answer # NotAsked /\ answer \notin Yes)
          => (pc = "exit" /\ exitCode = 0 /\ requests = <<>>)

C9_Witness ==
    /\ pc = "exit"
    /\ exitCode = 0
    /\ answer = <<"Y">>
    /\ Len(requests) = 2
    /\ valid.ret
    /\ Len(codes) = 2

\* The place of an event in an order of steps.
Rank(order, e) == IF e \in Range(order) THEN IndexOf(order, e) ELSE 0

InOrder(order) ==
    \A i, j \in DOMAIN events :
        i < j => Rank(order, events[i]) <= Rank(order, events[j])

\* C10, as stated: the CSV loader runs, then the promotion lookup, then the
\* creation requests; no lookup before the file has been loaded.
C10_LoadBeforeLookup ==
    /\ InOrder(<<"load", "lookup", "post">>)
    /\ "lookup" \in Range(events) => "load" \in Range(events)

\* C10, amended: the promotion lookup comes first, then the CSV loader, then
\* the creation requests; the file is not loaded before the validation
\* returned true, and no request is issued before the loader returned.
C10_LookupBeforeLoad ==
    /\ InOrder(<<"lookup", "load", "post">>)
    /\ "load" \in Range(events) => ("lookup" \in Range(events) /\ valid.ret)
    /\ "post" \in Range(events) => ("load" \in Range(events) /\ codes # <<>>)

C10_Witness ==
    /\ pc = "exit"
    /\ events = <<"lookup", "load", "post", "post">>

====
